---- MODULE Spec2Model ----
(***************************************************************************)
(* go-mongodb-client: the Storage adapter (mongodb/storage.go) over one    *)
(* collection of a document store, and the RetryingStorage decorator       *)
(* (RetryingStorage in mongodb/mock/mocked_storage.go) that wraps it.      *)
(*                                                                         *)
(* Documents are records [id, grp, age]; a field holds {} when the         *)
(* document has no such field and {v} when it holds v.  Filters and $set   *)
(* updates are sets of <<field, value>> pairs.  Sort strings are sequences *)
(* of one-character strings, as the code inspects their first character.   *)
(* uint64 limit/offset are converted with int64(): the model draws them    *)
(* from 0..MaxLimit and 0..MaxOffset, where that conversion changes        *)
(* nothing; values of 2^63 and above are outside the model.                *)
(*                                                                         *)
(* Spec follows one invocation on a RetryingStorage, a pass of retry's     *)
(* loop being one step; SpecRead is its read calls under fairness;         *)
(* SpecStore is direct calls on Storage; SpecConc follows two concurrent   *)
(* FindOne invocations through retry step by step, each with a context     *)
(* its caller may cancel.                                                  *)
(***************************************************************************)
EXTENDS Integers, Sequences, FiniteSets, TLC

\* ------------------------------------------------------------- bounds
MaxDocs == 3
MaxLimit == 2
MaxOffset == 1
MaxSortLen == 3

\* maxRetries of RetryingStorage.retry
maxRetries == 10

VARIABLES
    store,      \* the collection: documents in natural (insertion) order
    nextId,     \* the next _id the store generates
    up,         \* the latest call made on Storage: operation, arguments, result
    pc,         \* RetryingStorage invocation: "idle", "retry" or "done"
    inv,        \* the invocation: operation and arguments
    attempt,    \* retry: attempt counter
    err,        \* retry: the most recent error
    calls,      \* number of upstream calls the invocation has made
    hist,       \* outcome class of each upstream call of the invocation
    sleeps,     \* the sleeps of the invocation, in ms
    logs,       \* the log entries of the invocation
    dest,       \* the caller's destination
    left,       \* what the latest failed upstream call left in dest
    total,      \* FindMany's named result total
    ret,        \* what the invocation returned
    handle,     \* the fields of the RetryingStorage and of the Storage it wraps
    frames,     \* concurrent invocations: retry's locals attempt and err of each
    inflight,   \* concurrent invocations: position, context, calls, log, result
    nest,       \* a RetryingStorage over a RetryingStorage: the two retry loops
    findOptions \* the options Storage.FindMany builds for its fetch

vars == <<store, nextId, up, pc, inv, attempt, err, calls, hist, sleeps, logs,
          dest, left, total, ret, handle, frames, inflight, nest, findOptions>>

\* the nested decorators and the options of a fetch
moreVars == <<nest, findOptions>>

\* the handle and the invocations that run concurrently on it
concVars == <<handle, frames, inflight>>

\* the invocation followed on its own
soloVars == <<pc, inv, attempt, err, calls, hist, sleeps, logs, dest, left, total, ret>>

retryVars == <<soloVars, concVars, moreVars>>

\* ------------------------------------------------------------- errors
NoErr == [name |-> "nil"]

\* mongo.ErrNoDocuments, what SingleResult.Decode returns when nothing matched
ErrNoDocuments == [name |-> "ErrNoDocuments", cls |-> {}, id |-> 0]

\* What the driver's errors can report about themselves.  "canceled":
\* errors.Is(err, context.Canceled); "disconnected": errors.Is(err,
\* mongo.ErrClientDisconnected); "timeout": mongo.IsTimeout; "network":
\* mongo.IsNetworkError; "pool": the value implements
\* driver.RetryablePoolError; "waitqueue": errors.As finds a
\* topology.WaitQueueTimeoutError.
ErrClasses ==
    { {}, {"canceled"}, {"disconnected"}, {"timeout"}, {"network"}, {"pool"},
      {"waitqueue"}, {"canceled", "timeout"}, {"canceled", "network"} }

\* The errors a driver call can return; id tells one error value from another.
DriverErrors(id) == { [name |-> "driver", cls |-> c, id |-> id] : c \in ErrClasses }

Lit(s) == [lit |-> s]

\* err.Error() as a sequence of tokens: a base error's text is one token.
RECURSIVE ErrorText(_)
ErrorText(e) ==
    IF e.name = "withStack" THEN ErrorText(e.inner)
    ELSE IF e.name = "withMessage" THEN <<Lit(e.msg), Lit(": ")>> \o ErrorText(e.cause)
    ELSE IF e.name = "wrapError" THEN e.msg
    ELSE <<e>>

\* errors.Wrap of github.com/pkg/errors: nil stays nil, otherwise a withStack
\* around a withMessage around the cause.
Wrap(e, message) ==
    IF e = NoErr THEN NoErr
    ELSE [name |-> "withStack",
          inner |-> [name |-> "withMessage", msg |-> message, cause |-> e]]

\* ErrorfWV, formatting the first error alone
ErrorfWV_FirstOnly(a, b) == [name |-> "wrapError", msg |-> ErrorText(a), unwrap |-> a]

\* fmt.Errorf("%w %v", a, b): the text of both, only a can be unwrapped.
ErrorfWV(a, b) ==
    [name |-> "wrapError", msg |-> ErrorText(a) \o <<Lit(" ")>> \o ErrorText(b),
     unwrap |-> a]

\* errors.Unwrap
Unwrap(e) ==
    IF e.name = "withStack" THEN e.inner
    ELSE IF e.name = "withMessage" THEN e.cause
    ELSE IF e.name = "wrapError" THEN e.unwrap
    ELSE NoErr

\* e and everything reached from it by unwrapping.
RECURSIVE ErrChain(_)
ErrChain(e) == IF e = NoErr THEN {} ELSE {e} \cup ErrChain(Unwrap(e))

ClsOf(e) == IF e.name = "driver" THEN e.cls ELSE {}

\* ------------------------------------------------------------- documents
Vals == {1, 2}
Opt == {{}} \cup {{v} : v \in Vals}
Ids == 1..MaxDocs

Field(d, f) ==
    IF f = "_id" THEN {d.id}
    ELSE IF f = "grp" THEN d.grp
    ELSE IF f = "age" THEN d.age
    ELSE {}

Matches(d, filter) == \A p \in filter : Field(d, p[1]) = {p[2]}

Matching(st, filter) == SelectSeq(st, LAMBDA d : Matches(d, filter))

SetOf(u, f, old) == IF \E p \in u : p[1] = f THEN {(CHOOSE p \in u : p[1] = f)[2]} ELSE old

\* a $set update applied to a document
ApplyUpdate(d, u) ==
    [id |-> d.id, grp |-> SetOf(u, "grp", d.grp), age |-> SetOf(u, "age", d.age)]

\* the document an upsert inserts: the filter's equality fields, then the update
UpsertDoc(nid, filter, u) ==
    ApplyUpdate([id |-> IF \E p \in filter : p[1] = "_id"
                        THEN (CHOOSE p \in filter : p[1] = "_id")[2] ELSE nid,
                 grp |-> SetOf(filter, "grp", {}),
                 age |-> SetOf(filter, "age", {})], u)

FirstIndex(st, filter) == CHOOSE i \in 1..Len(st) :
    /\ Matches(st[i], filter)
    /\ \A j \in 1..(i - 1) : ~Matches(st[j], filter)

RemoveAt(st, i) == SubSeq(st, 1, i - 1) \o SubSeq(st, i + 1, Len(st))

\* ------------------------------------------------------------- the store
\* The driver's collection calls, on a collection held as a sequence.

NoSort == [key |-> <<>>, value |-> 0]

\* the field a sort key names
KeyField(key) ==
    IF key = <<"a", "g", "e">> THEN "age"
    ELSE IF key = <<"g", "r", "p">> THEN "grp"
    ELSE IF key = <<"_", "i", "d">> THEN "_id"
    ELSE "?"

\* BSON order: a missing field sorts before every number
Rank(o) == IF o = {} THEN 0 ELSE CHOOSE v \in o : TRUE

\* d may come before c under the sort option
MayPrecede(d, c, opt) ==
    LET a == Rank(Field(d, KeyField(opt.key)))
        b == Rank(Field(c, KeyField(opt.key)))
    IN IF opt.value = 1 THEN a <= b ELSE a >= b

\* every sequence that holds the documents of S in the order of the sort option
RECURSIVE Orderings(_, _)
Orderings(S, opt) ==
    IF S = {} THEN {<<>>}
    ELSE UNION {{<<d>> \o t : t \in Orderings(S \ {d}, opt)} :
                  d \in {x \in S : \A y \in S : MayPrecede(x, y, opt)}}

Range(s) == {s[i] : i \in 1..Len(s)}

Abs(x) == IF x < 0 THEN 0 - x ELSE x

\* Collection.CountDocuments
CountDocuments(st, filter) == Len(Matching(st, filter))

\* Collection.Find with SetLimit, SetSkip and SetSort: the sequences the
\* cursor can yield.  Without a sort the documents come in natural order;
\* with one, documents with equal keys come in any order.  A limit of 0 is
\* no limit, a negative limit is its absolute value.
Find(st, filter, limit, skip, opt) ==
    LET m == Matching(st, filter)
        ordered == IF opt = NoSort THEN {m} ELSE Orderings(Range(m), opt)
        Skip(s) == SubSeq(s, skip + 1, Len(s))
        Limit(s) == IF limit = 0 \/ Abs(limit) >= Len(s) THEN s
                    ELSE SubSeq(s, 1, Abs(limit))
    IN {Limit(Skip(s)) : s \in ordered}

\* Collection.UpdateOne: the first match is updated; with upsert and no match
\* a document is inserted.
UpdateOne(st, nid, filter, update, upsert) ==
    IF CountDocuments(st, filter) > 0
    THEN LET i == FirstIndex(st, filter)
             d == ApplyUpdate(st[i], update)
         IN [store |-> [st EXCEPT ![i] = d], nextId |-> nid, MatchedCount |-> 1,
             ModifiedCount |-> IF d = st[i] THEN 0 ELSE 1, UpsertedCount |-> 0]
    ELSE IF upsert
    THEN [store |-> Append(st, UpsertDoc(nid, filter, update)), nextId |-> nid + 1,
          MatchedCount |-> 0, ModifiedCount |-> 0, UpsertedCount |-> 1]
    ELSE [store |-> st, nextId |-> nid, MatchedCount |-> 0, ModifiedCount |-> 0,
          UpsertedCount |-> 0]

\* Collection.DeleteOne
DeleteOne(st, filter) ==
    IF CountDocuments(st, filter) > 0
    THEN [store |-> RemoveAt(st, FirstIndex(st, filter)), DeletedCount |-> 1]
    ELSE [store |-> st, DeletedCount |-> 0]

\* Collection.DeleteMany
DeleteManyDocs(st, filter) ==
    [store |-> SelectSeq(st, LAMBDA d : ~Matches(d, filter)),
     DeletedCount |-> CountDocuments(st, filter)]

\* Collection.InsertOne: the store generates the _id
InsertOne(st, nid, document) ==
    [store |-> Append(st, [id |-> nid, grp |-> document.grp, age |-> document.age]),
     nextId |-> nid + 1]

\* CursorAll, appending to what dest holds
CursorAll_Append(docs, d, e) ==
    IF e = NoErr THEN {[out |-> d \o docs, err |-> NoErr]}
    ELSE {[out |-> d, err |-> e]}
         \cup {[out |-> d \o SubSeq(docs, 1, c), err |-> e] : c \in 1..(Len(docs) - 1)}

\* Cursor.All into dest: every document replaces dest's content; when
\* fetching a later batch fails, dest holds the documents decoded so far and
\* the error is returned; when decoding fails dest is left as it was.
CursorAll(docs, d, e) ==
    IF e = NoErr THEN {[out |-> docs, err |-> NoErr]}
    ELSE {[out |-> d, err |-> e]}
         \cup {[out |-> SubSeq(docs, 1, c), err |-> e] : c \in 1..(Len(docs) - 1)}

\* ------------------------------------------------------------- Storage
\* Each operation yields the set of its outcomes for an injected driver
\* error e (NoErr: every driver call succeeds).  An outcome holds the store
\* after the call, the values returned and the collection calls made.  A
\* write that returns a driver error may or may not have been applied.

Outcome(st, nid, n, e, out, cs) ==
    [store |-> st, nextId |-> nid, n |-> n, err |-> e, out |-> out, calls |-> cs]

\* StorageFindOne, calling the store again when the call failed
StorageFindOne_Retry(st, nid, filter, d, e) ==
    IF e # NoErr THEN {Outcome(st, nid, 0, e, d, <<"FindOne", "FindOne">>)}
    ELSE IF CountDocuments(st, filter) = 0
    THEN {Outcome(st, nid, 0, ErrNoDocuments, d, <<"FindOne">>)}
    ELSE {Outcome(st, nid, 0, NoErr, <<st[FirstIndex(st, filter)]>>, <<"FindOne">>)}

\* Storage.FindOne
StorageFindOne(st, nid, filter, d, e) ==
    IF e # NoErr THEN {Outcome(st, nid, 0, e, d, <<"FindOne">>)}
    ELSE IF CountDocuments(st, filter) = 0
    THEN {Outcome(st, nid, 0, ErrNoDocuments, d, <<"FindOne">>)}
    ELSE {Outcome(st, nid, 0, NoErr, <<st[FirstIndex(st, filter)]>>, <<"FindOne">>)}

\* Storage.FindAll
StorageFindAll(st, nid, filter, d, e) ==
    (IF e # NoErr THEN {Outcome(st, nid, 0, e, d, <<"Find">>)} ELSE {})
    \cup {Outcome(st, nid, 0, r.err, r.out, <<"Find">>) :
            r \in UNION {CursorAll(docs, d, e) : docs \in Find(st, filter, 0, 0, NoSort)}}

HasPrefix(s, c) == Len(s) > 0 /\ s[1] = c

\* TrimPrefix, removing every leading c as strings.TrimLeft does
RECURSIVE TrimPrefix_TrimLeft(_, _)
TrimPrefix_TrimLeft(s, c) ==
    IF Len(s) > 0 /\ s[1] = c THEN TrimPrefix_TrimLeft(Tail(s), c) ELSE s

TrimPrefix(s, c) == IF HasPrefix(s, c) THEN Tail(s) ELSE s

\* the sort option Storage.FindMany sets from its sort string
SortOption(sort) ==
    IF sort = <<>> THEN NoSort
    ELSE IF HasPrefix(sort, "-") THEN [key |-> TrimPrefix(sort, "-"), value |-> 0 - 1]
    ELSE [key |-> sort, value |-> 1]

\* StorageFindMany, counting the documents of the page
StorageFindMany_PageCount(st, nid, filter, limit, offset, sort, d, e) ==
    LET count == CountDocuments(st, filter)
        cs == <<"CountDocuments", "Find">>
    IN (IF e # NoErr
        THEN {Outcome(st, nid, 0, e, d, <<"CountDocuments">>),
              Outcome(st, nid, count, e, d, cs)}
        ELSE {})
       \cup {Outcome(st, nid, Len(r.out), r.err, r.out, cs) :
               r \in UNION {CursorAll(docs, d, e) :
                              docs \in Find(st, filter, limit, offset, SortOption(sort))}}

\* Storage.FindMany
StorageFindMany(st, nid, filter, limit, offset, sort, d, e) ==
    LET count == CountDocuments(st, filter)
        cs == <<"CountDocuments", "Find">>
    IN (IF e # NoErr
        THEN {Outcome(st, nid, 0, e, d, <<"CountDocuments">>),
              Outcome(st, nid, count, e, d, cs)}
        ELSE {})
       \cup {Outcome(st, nid, count, r.err, r.out, cs) :
               r \in UNION {CursorAll(docs, d, e) :
                              docs \in Find(st, filter, limit, offset, SortOption(sort))}}

\* the outcomes of a write: applied and returned without error, or a driver
\* error returned with the write applied or not
WriteOutcomes(st, nid, applied, n, e, call) ==
    IF e = NoErr THEN {Outcome(applied.store, applied.nextId, n, NoErr, <<>>, <<call>>)}
    ELSE {Outcome(st, nid, 0, e, <<>>, <<call>>),
          Outcome(applied.store, applied.nextId, 0, e, <<>>, <<call>>)}

\* Storage.Insert
StorageInsert(st, nid, document, e) ==
    WriteOutcomes(st, nid, InsertOne(st, nid, document), 0, e, "InsertOne")

\* Storage.Update
StorageUpdate(st, nid, docID, update, e) ==
    LET r == UpdateOne(st, nid, {<<"_id", docID>>}, update, FALSE)
    IN WriteOutcomes(st, nid, r, r.ModifiedCount, e, "UpdateOne")

\* StorageUpsert, returning the modified count
StorageUpsert_ModifiedCount(st, nid, filter, update, e) ==
    LET r == UpdateOne(st, nid, filter, update, TRUE)
    IN WriteOutcomes(st, nid, r, r.ModifiedCount, e, "UpdateOne")

\* Storage.Upsert
StorageUpsert(st, nid, filter, update, e) ==
    LET r == UpdateOne(st, nid, filter, update, TRUE)
    IN WriteOutcomes(st, nid, r, r.UpsertedCount, e, "UpdateOne")

\* Storage.Delete
StorageDelete(st, nid, docID, e) ==
    LET r == DeleteOne(st, {<<"_id", docID>>})
    IN WriteOutcomes(st, nid, [store |-> r.store, nextId |-> nid], r.DeletedCount, e,
                     "DeleteOne")

\* Storage.DeleteMany
StorageDeleteMany(st, nid, filter, e) ==
    LET r == DeleteManyDocs(st, filter)
    IN WriteOutcomes(st, nid, [store |-> r.store, nextId |-> nid], r.DeletedCount, e,
                     "DeleteMany")

\* StorageRunInTransaction, returning a failed commit's error without aborting
StorageRunInTransaction_CommitNoAbort(failAt, e, ae) ==
    IF failAt = "session" THEN [err |-> e, calls |-> <<"StartSession">>]
    ELSE IF failAt = "commit"
    THEN [err |-> e, calls |-> <<"StartSession", "StartTransaction", "fn",
                                 "CommitTransaction", "EndSession">>]
    ELSE LET body == IF failAt = "start" THEN <<"StartTransaction">>
                     ELSE IF failAt = "fn" THEN <<"StartTransaction", "fn">>
                     ELSE <<"StartTransaction", "fn", "CommitTransaction">>
             werr == IF failAt = "none" THEN NoErr ELSE e
         IN IF werr # NoErr
            THEN [err |-> IF ae # NoErr THEN ErrorfWV(ae, werr) ELSE werr,
                  calls |-> <<"StartSession">> \o body
                            \o <<"AbortTransaction", "EndSession">>]
            ELSE [err |-> NoErr, calls |-> <<"StartSession">> \o body \o <<"EndSession">>]

\* StorageRunInTransaction, committing whatever fn returned
StorageRunInTransaction_CommitAfterFn(failAt, e, ae) ==
    IF failAt = "session" THEN [err |-> e, calls |-> <<"StartSession">>]
    ELSE LET body == IF failAt = "start" THEN <<"StartTransaction">>
                     ELSE <<"StartTransaction", "fn", "CommitTransaction">>
             werr == IF failAt = "none" THEN NoErr ELSE e
         IN IF werr # NoErr
            THEN [err |-> IF ae # NoErr THEN ErrorfWV(ae, werr) ELSE werr,
                  calls |-> <<"StartSession">> \o body
                            \o <<"AbortTransaction", "EndSession">>]
            ELSE [err |-> NoErr, calls |-> <<"StartSession">> \o body \o <<"EndSession">>]

\* StorageRunInTransaction, leaving the session open when the abort failed
StorageRunInTransaction_EndUnlessAbortFailed(failAt, e, ae) ==
    IF failAt = "session" THEN [err |-> e, calls |-> <<"StartSession">>]
    ELSE LET body == IF failAt = "start" THEN <<"StartTransaction">>
                     ELSE IF failAt = "fn" THEN <<"StartTransaction", "fn">>
                     ELSE <<"StartTransaction", "fn", "CommitTransaction">>
             werr == IF failAt = "none" THEN NoErr ELSE e
         IN IF werr # NoErr
            THEN IF ae # NoErr
                 THEN [err |-> ErrorfWV(ae, werr),
                       calls |-> <<"StartSession">> \o body \o <<"AbortTransaction">>]
                 ELSE [err |-> werr,
                       calls |-> <<"StartSession">> \o body
                                 \o <<"AbortTransaction", "EndSession">>]
            ELSE [err |-> NoErr, calls |-> <<"StartSession">> \o body \o <<"EndSession">>]

\* Storage.RunInTransaction.  failAt names the step whose call returns the
\* error e ("none": no step fails); ae is what AbortTransaction returns.  The
\* result is the error returned and the session calls made, in order; fn is
\* the caller's function.
StorageRunInTransaction(failAt, e, ae) ==
    IF failAt = "session" THEN [err |-> e, calls |-> <<"StartSession">>]
    ELSE LET body == IF failAt = "start" THEN <<"StartTransaction">>
                     ELSE IF failAt = "fn" THEN <<"StartTransaction", "fn">>
                     ELSE <<"StartTransaction", "fn", "CommitTransaction">>
             werr == IF failAt = "none" THEN NoErr ELSE e
         IN IF werr # NoErr
            THEN [err |-> IF ae # NoErr THEN ErrorfWV(ae, werr) ELSE werr,
                  calls |-> <<"StartSession">> \o body
                            \o <<"AbortTransaction", "EndSession">>]
            ELSE [err |-> NoErr, calls |-> <<"StartSession">> \o body \o <<"EndSession">>]

TxOutcomes(st, nid, failAt, e, ae) ==
    LET r == StorageRunInTransaction(failAt, e, ae)
    IN {Outcome(st, nid, 0, r.err, <<>>, r.calls)}

\* ------------------------------------------------------------- inputs
Filters == {{}, {<<"grp", 1>>}, {<<"grp", 2>>}}
Updates == {{<<f, v>>} : f \in {"grp", "age"}, v \in Vals}
Documents == [grp : {{v} : v \in Vals}, age : {{v} : v \in Vals}]
Sorts == {<<>>, <<"a", "g", "e">>, <<"-", "a", "g", "e">>}
Limits == 0..MaxLimit \cup {10}
Offsets == 0..MaxOffset
FailSteps == {"session", "start", "fn", "commit"}

\* what a driver call of a direct Storage call returns: nothing, or an error
StoreFaults == {NoErr, [name |-> "driver", cls |-> {"network"}, id |-> 1]}
AbortFaults == {NoErr, [name |-> "driver", cls |-> {}, id |-> 2]}

\* what a driver call under a RetryingStorage invocation returns at upstream
\* call number k
Faults(k) == {NoErr} \cup DriverErrors(k)

\* the arguments of the calls made through RetryingStorage
RFilters == {{<<"grp", 1>>}, {<<"grp", 2>>}}
RLimits == {0, MaxLimit - 1}
ROffsets == {0}
RSorts == {<<>>, <<"-", "a", "g", "e">>}
RDocuments == {[grp |-> {1}, age |-> {2}]}
RUpdates == {{<<"grp", 2>>}}
RIds == {1}

\* ------------------------------------------------------------- calls on Storage
NoCall == [op |-> "none"]

\* no call is in progress
Ready == pc = "idle" /\ up = NoCall

\* the collection is one the model writes to
Small == Len(store) <= MaxDocs

\* The call op(args) on Storage ends with outcome o.
Called(op, args, o) ==
    /\ store' = o.store
    /\ nextId' = o.nextId
    /\ up' = [op |-> op, args |-> args, pre |-> store, n |-> o.n, err |-> o.err,
              out |-> o.out, calls |-> o.calls]

SFindOne ==
    /\ Ready
    /\ \E f \in Filters, e \in StoreFaults :
        \E o \in StorageFindOne(store, nextId, f, <<>>, e) :
            Called("FindOne", [filter |-> f], o) /\ UNCHANGED retryVars

SFindAll ==
    /\ Ready
    /\ \E f \in Filters, e \in StoreFaults :
        \E o \in StorageFindAll(store, nextId, f, <<>>, e) :
            Called("FindAll", [filter |-> f], o) /\ UNCHANGED retryVars

SFindMany ==
    /\ Ready
    /\ \E f \in Filters, l \in Limits, k \in Offsets, s \in Sorts, e \in StoreFaults :
        \E o \in StorageFindMany(store, nextId, f, l, k, s, <<>>, e) :
            /\ Called("FindMany", [filter |-> f, limit |-> l, offset |-> k, sort |-> s], o)
            /\ UNCHANGED retryVars

SInsert ==
    /\ Ready /\ Small
    /\ nextId <= MaxDocs
    /\ \E d \in Documents, e \in StoreFaults :
        \E o \in StorageInsert(store, nextId, d, e) :
            Called("Insert", [document |-> d], o) /\ UNCHANGED retryVars

SUpdate ==
    /\ Ready /\ Small
    /\ \E i \in Ids, u \in Updates, e \in StoreFaults :
        \E o \in StorageUpdate(store, nextId, i, u, e) :
            Called("Update", [docID |-> i, update |-> u], o) /\ UNCHANGED retryVars

SUpsert ==
    /\ Ready /\ Small
    /\ \E f \in Filters, u \in Updates, e \in StoreFaults :
        /\ CountDocuments(store, f) = 0 => nextId <= MaxDocs
        /\ \E o \in StorageUpsert(store, nextId, f, u, e) :
            Called("Upsert", [filter |-> f, update |-> u], o) /\ UNCHANGED retryVars

SDelete ==
    /\ Ready /\ Small
    /\ \E i \in Ids, e \in StoreFaults :
        \E o \in StorageDelete(store, nextId, i, e) :
            Called("Delete", [docID |-> i], o) /\ UNCHANGED retryVars

SDeleteMany ==
    /\ Ready /\ Small
    /\ \E f \in Filters, e \in StoreFaults :
        \E o \in StorageDeleteMany(store, nextId, f, e) :
            Called("DeleteMany", [filter |-> f], o) /\ UNCHANGED retryVars

SRunInTransaction ==
    /\ Ready
    /\ \E at \in FailSteps \cup {"none"}, e \in StoreFaults \ {NoErr}, ae \in AbortFaults :
        \E o \in TxOutcomes(store, nextId, at, e, ae) :
            /\ Called("RunInTransaction", [failAt |-> at, stepErr |-> e, abortErr |-> ae], o)
            /\ UNCHANGED retryVars

\* the goroutines that call the handle concurrently
Callers == {1, 2}

\* MakeStorage and NewRetryingStorage: the fields of the two handles
NewRetryingStorage ==
    [upstream |-> "Storage", logger |-> "zap.Logger", database |-> "mongo.Database"]

\* retry's locals at its entry
NewFrame == [attempt |-> 1, err |-> NoErr]

\* nothing counted yet, no latest item
None == [n |-> 0]

\* no call on the outer decorator
NoNest == [pc |-> "idle"]

\* no options built
NoFindOptions == [arg |-> "none"]

\* a caller that is not inside a call
Outside ==
    [pc |-> "idle", own |-> [n |-> 0, last |-> NoErr], logs |-> None, sleeps |-> None,
     ret |-> NoCall, ctx |-> "live", late |-> FALSE,
     after |-> [calls |-> 0, sleeps |-> 0, kept |-> TRUE]]

Idle ==
    /\ pc = "idle" /\ inv = NoCall /\ attempt = 1 /\ err = NoErr /\ calls = 0
    /\ hist = <<>> /\ sleeps = <<>> /\ logs = <<>> /\ dest = <<>> /\ left = <<>>
    /\ total = 0 /\ ret = NoCall
    /\ handle = NewRetryingStorage
    /\ frames = [c \in Callers |-> NewFrame]
    /\ inflight = [c \in Callers |-> Outside]
    /\ nest = NoNest
    /\ findOptions = NoFindOptions

\* a collection of 16 documents, 15 of them with grp 1; two of those have
\* the same age
Shelf ==
    [i \in 1..16 |-> [id |-> i, grp |-> IF i <= 15 THEN {1} ELSE {2},
                      age |-> {IF i = 15 THEN 1 ELSE i}]]

\* a Storage made over an empty collection, or over the collection Shelf
InitStore ==
    /\ \/ store = <<>> /\ nextId = 1
       \/ store = Shelf /\ nextId = 17
    /\ up = NoCall
    /\ Idle

\* the call on Storage has returned and its caller has taken the result
SReturn ==
    /\ pc = "idle" /\ up # NoCall
    /\ up' = NoCall
    /\ UNCHANGED <<store, nextId, retryVars>>

NextStore ==
    \/ SFindOne \/ SFindAll \/ SFindMany
    \/ SInsert \/ SUpdate \/ SUpsert \/ SDelete \/ SDeleteMany
    \/ SRunInTransaction
    \/ SReturn

\* direct calls on a Storage
SpecStore == InitStore /\ [][NextStore]_vars

\* ------------------------------------------------------------- RetryingStorage
\* IsCanceled, recognising no error
IsCanceled_Never(e) == FALSE

\* errors.Is(err, context.Canceled)
IsCanceled(e) == \E x \in ErrChain(e) : "canceled" \in ClsOf(x)

\* errors.Is(err, mongo.ErrClientDisconnected)
IsClientDisconnected(e) == \E x \in ErrChain(e) : "disconnected" \in ClsOf(x)

\* mongo.IsTimeout(err)
IsTimeout(e) == \E x \in ErrChain(e) : "timeout" \in ClsOf(x)

\* mongo.IsNetworkError(err)
IsNetworkError(e) == \E x \in ErrChain(e) : "network" \in ClsOf(x)

\* err.(driver.RetryablePoolError): a type assertion on err itself
IsRetryablePoolError(e) == "pool" \in ClsOf(e)

\* errors.As(err, &waitQueueTimeoutError)
IsWaitQueueTimeout(e) == \E x \in ErrChain(e) : "waitqueue" \in ClsOf(x)

\* Branch, retrying every error that is not a cancellation
Branch_RetryUnrecognized(e) ==
    IF e = NoErr THEN "return"
    ELSE IF IsCanceled(e) THEN "break"
    ELSE "retrying mongodb network error"

\* Branch, with the cancellation check after the transient checks
Branch_CancelLast(e) ==
    IF e = NoErr THEN "return"
    ELSE IF IsClientDisconnected(e) THEN "retrying mongodb client disconnected"
    ELSE IF IsTimeout(e) THEN "retrying mongodb timeout"
    ELSE IF IsNetworkError(e) THEN "retrying mongodb network error"
    ELSE IF IsRetryablePoolError(e) THEN "retrying mongodb pool error"
    ELSE IF IsWaitQueueTimeout(e) THEN "retrying WaitQueueTimeoutError"
    ELSE "break"

\* Branch, retrying a not-found result
Branch_RetryNotFound(e) ==
    IF e = NoErr THEN "return"
    ELSE IF IsCanceled(e) THEN "break"
    ELSE IF IsClientDisconnected(e) THEN "retrying mongodb client disconnected"
    ELSE IF IsTimeout(e) THEN "retrying mongodb timeout"
    ELSE IF IsNetworkError(e) THEN "retrying mongodb network error"
    ELSE IF IsRetryablePoolError(e) THEN "retrying mongodb pool error"
    ELSE IF IsWaitQueueTimeout(e) THEN "retrying WaitQueueTimeoutError"
    ELSE IF e = ErrNoDocuments THEN "retrying mongodb timeout"
    ELSE "break"

\* Branch, with the timeout check before the cancellation check
Branch_TimeoutFirst(e) ==
    IF e = NoErr THEN "return"
    ELSE IF IsTimeout(e) THEN "retrying mongodb timeout"
    ELSE IF IsCanceled(e) THEN "break"
    ELSE IF IsClientDisconnected(e) THEN "retrying mongodb client disconnected"
    ELSE IF IsNetworkError(e) THEN "retrying mongodb network error"
    ELSE IF IsRetryablePoolError(e) THEN "retrying mongodb pool error"
    ELSE IF IsWaitQueueTimeout(e) THEN "retrying WaitQueueTimeoutError"
    ELSE "break"

\* the branch of retry's loop body that an error of fn takes
Branch(e) ==
    IF e = NoErr THEN "return"
    ELSE IF IsCanceled(e) THEN "break"
    ELSE IF IsClientDisconnected(e) THEN "retrying mongodb client disconnected"
    ELSE IF IsTimeout(e) THEN "retrying mongodb timeout"
    ELSE IF IsNetworkError(e) THEN "retrying mongodb network error"
    ELSE IF IsRetryablePoolError(e) THEN "retrying mongodb pool error"
    ELSE IF IsWaitQueueTimeout(e) THEN "retrying WaitQueueTimeoutError"
    ELSE "break"

Retrying(b) == b \notin {"return", "break"}

\* SleepMs, doubling with every attempt
SleepMs_Doubling(n) == 10 * 2 ^ (n - 1)

\* time.Sleep(10 * time.Duration(attempt) * time.Millisecond), in ms
SleepMs(n) == 10 * n

\* Exhausted, giving up one attempt early
Exhausted_OffByOne(n) == n >= maxRetries

\* Exhausted, allowing two attempts more
Exhausted_AtTwelve(n) == n > maxRetries + 2

\* Exhausted, allowing one attempt more
Exhausted_AtEleven(n) == n > maxRetries + 1

\* the check at the head of retry's loop
Exhausted(n) == n > maxRetries

\* ExhaustedError, returning the last error as it is
ExhaustedError_NoWrap(e) == e

\* what retry returns when the limit is exceeded
ExhaustedError(e) == Wrap(e, "exceeded retry limit")

\* the upstream call of a read invocation
UpstreamRead(st, nid, c, d, e) ==
    IF c.op = "FindOne" THEN StorageFindOne(st, nid, c.args.filter, d, e)
    ELSE IF c.op = "FindAll" THEN StorageFindAll(st, nid, c.args.filter, d, e)
    ELSE StorageFindMany(st, nid, c.args.filter, c.args.limit, c.args.offset,
                         c.args.sort, d, e)

\* the outcome class of an upstream call, read off the error itself
Kind(e) ==
    IF e = NoErr THEN "ok"
    ELSE IF "canceled" \in ClsOf(e) THEN "canceled"
    ELSE IF ClsOf(e) # {} THEN "transient"
    ELSE "other"

\* a read is invoked: retry's locals are set up
Invoke(c) ==
    /\ Ready
    /\ pc' = "retry"
    /\ inv' = c
    /\ attempt' = 1
    /\ err' = NoErr
    /\ calls' = 0
    /\ hist' = <<>> /\ sleeps' = <<>> /\ logs' = <<>>
    /\ dest' = <<>> /\ left' = <<>> /\ total' = 0
    /\ ret' = NoCall
    /\ UNCHANGED <<store, nextId, up, concVars, moreVars>>

RFindOne == \E f \in RFilters : Invoke([op |-> "FindOne", args |-> [filter |-> f]])

RFindAll == \E f \in RFilters : Invoke([op |-> "FindAll", args |-> [filter |-> f]])

RFindMany ==
    \E f \in RFilters, l \in RLimits, k \in ROffsets, s \in RSorts :
        Invoke([op |-> "FindMany",
                args |-> [filter |-> f, limit |-> l, offset |-> k, sort |-> s]])

\* retry: the limit is exceeded at the head of the loop
RetryExhausted ==
    /\ pc = "retry"
    /\ Exhausted(attempt)
    /\ pc' = "done"
    /\ ret' = [total |-> total, err |-> ExhaustedError(err)]
    /\ UNCHANGED <<store, nextId, up, inv, attempt, err, calls, hist, sleeps, logs,
                   dest, left, total, concVars, moreVars>>

\* retry: one pass of the loop body, fn() being the upstream call
RetryAttempt ==
    /\ pc = "retry"
    /\ ~Exhausted(attempt)
    /\ \E e \in Faults(calls + 1) :
        \E o \in UpstreamRead(store, nextId, inv, dest, e) :
            LET b == Branch(o.err)
                t == IF inv.op = "FindMany" THEN o.n ELSE total
            IN /\ store' = o.store
               /\ nextId' = o.nextId
               /\ up' = [op |-> inv.op, args |-> inv.args, pre |-> store, n |-> o.n,
                         err |-> o.err, out |-> o.out, calls |-> o.calls]
               /\ err' = o.err
               /\ calls' = calls + 1
               /\ hist' = Append(hist, Kind(o.err))
               /\ dest' = o.out
               /\ left' = IF o.err = NoErr THEN left ELSE o.out
               /\ total' = t
               /\ IF Retrying(b)
                  THEN /\ logs' = Append(logs, [attempt |-> attempt, error |-> o.err.id])
                       /\ sleeps' = Append(sleeps, SleepMs(attempt))
                       /\ attempt' = attempt + 1
                       /\ pc' = "retry"
                       /\ ret' = ret
                  ELSE /\ pc' = "done"
                       /\ ret' = [total |-> t, err |-> o.err]
                       /\ UNCHANGED <<logs, sleeps, attempt>>
               /\ inv' = inv
               /\ UNCHANGED <<concVars, moreVars>>

\* PassThrough, wrapping the upstream's error
PassThrough_Wrapped(op, args, o) ==
    /\ store' = o.store
    /\ nextId' = o.nextId
    /\ up' = [op |-> op, args |-> args, pre |-> store, n |-> o.n, err |-> o.err,
              out |-> o.out, calls |-> o.calls]
    /\ pc' = "done"
    /\ inv' = [op |-> op, args |-> args]
    /\ calls' = 1
    /\ hist' = <<Kind(o.err)>>
    /\ ret' = [total |-> o.n, err |-> Wrap(o.err, "write failed")]
    /\ UNCHANGED <<attempt, err, sleeps, logs, dest, left, total, concVars, moreVars>>

\* a write or a transaction: passed to the upstream once
PassThrough(op, args, o) ==
    /\ store' = o.store
    /\ nextId' = o.nextId
    /\ up' = [op |-> op, args |-> args, pre |-> store, n |-> o.n, err |-> o.err,
              out |-> o.out, calls |-> o.calls]
    /\ pc' = "done"
    /\ inv' = [op |-> op, args |-> args]
    /\ calls' = 1
    /\ hist' = <<Kind(o.err)>>
    /\ ret' = [total |-> o.n, err |-> o.err]
    /\ UNCHANGED <<attempt, err, sleeps, logs, dest, left, total, concVars, moreVars>>

RInsert ==
    /\ Ready
    /\ nextId <= MaxDocs
    /\ \E d \in RDocuments, e \in Faults(1) :
        \E o \in StorageInsert(store, nextId, d, e) :
            PassThrough("Insert", [document |-> d], o)

RUpdate ==
    /\ Ready
    /\ \E i \in RIds, u \in RUpdates, e \in Faults(1) :
        \E o \in StorageUpdate(store, nextId, i, u, e) :
            PassThrough("Update", [docID |-> i, update |-> u], o)

RUpsert ==
    /\ Ready
    /\ \E f \in RFilters, u \in RUpdates, e \in Faults(1) :
        /\ CountDocuments(store, f) = 0 => nextId <= MaxDocs
        /\ \E o \in StorageUpsert(store, nextId, f, u, e) :
            PassThrough("Upsert", [filter |-> f, update |-> u], o)

RDelete ==
    /\ Ready
    /\ \E i \in RIds, e \in Faults(1) :
        \E o \in StorageDelete(store, nextId, i, e) :
            PassThrough("Delete", [docID |-> i], o)

RDeleteMany ==
    /\ Ready
    /\ \E f \in RFilters, e \in Faults(1) :
        \E o \in StorageDeleteMany(store, nextId, f, e) :
            PassThrough("DeleteMany", [filter |-> f], o)

RRunInTransaction ==
    /\ Ready
    /\ \E at \in FailSteps \cup {"none"}, e \in DriverErrors(1), ae \in AbortFaults :
        \E o \in TxOutcomes(store, nextId, at, e, ae) :
            PassThrough("RunInTransaction", [failAt |-> at, stepErr |-> e, abortErr |-> ae], o)

\* the invocation has returned: its locals are gone
Return ==
    /\ pc = "done"
    /\ pc' = "idle" /\ inv' = NoCall /\ attempt' = 1 /\ err' = NoErr /\ calls' = 0
    /\ hist' = <<>> /\ sleeps' = <<>> /\ logs' = <<>> /\ dest' = <<>> /\ left' = <<>>
    /\ total' = 0 /\ ret' = NoCall /\ up' = NoCall
    /\ UNCHANGED <<store, nextId, concVars, moreVars>>

\* a RetryingStorage made over a Storage whose collection holds two documents
Init ==
    /\ store = <<[id |-> 1, grp |-> {1}, age |-> {1}], [id |-> 2, grp |-> {1}, age |-> {2}]>>
    /\ nextId = 3
    /\ up = NoCall
    /\ Idle

Next ==
    \/ RFindOne \/ RFindAll \/ RFindMany
    \/ RetryAttempt \/ RetryExhausted
    \/ RInsert \/ RUpdate \/ RUpsert \/ RDelete \/ RDeleteMany \/ RRunInTransaction
    \/ Return

\* calls on a RetryingStorage that wraps a Storage
Spec == Init /\ [][Next]_vars

\* ------------------------------------------------------------- concurrent callers
\* Two goroutines call FindOne on the same RetryingStorage, each with its
\* own context.  retry is followed step by step: the check at the head of
\* the loop, fn in progress, the log entry, time.Sleep in progress.  Of the
\* log and of the sleeps of an invocation the number and the latest one are
\* kept.

\* Slot, with attempt and err kept in the handle
Slot_Shared(c) == 1

\* where the attempt and err of caller c's invocation live: locals of its
\* own call of retry
Slot(c) == c

\* the call caller c makes
CallOf(c) == [op |-> "FindOne", args |-> [filter |-> {<<"grp", c>>}]]

\* what the errors of the concurrent calls report about themselves
CErrClasses == { {}, {"canceled"}, {"timeout"}, {"pool"}, {"canceled", "timeout"} }

\* what a driver call returns at call number k of caller c's invocation
CFaults(c, k) ==
    {NoErr} \cup {e \in DriverErrors(<<c, k>>) : e.cls \in CErrClasses}

\* LogEntry, numbering the attempt to come
LogEntry_NextAttempt(msg, n, e) ==
    [level |-> "info", msg |-> msg, attempt |-> n + 1, error |-> ErrorText(e)]

\* s.logger.Info(msg, zap.Int("attempt", attempt), zap.String("error", err.Error()))
LogEntry(msg, n, e) ==
    [level |-> "info", msg |-> msg, attempt |-> n, error |-> ErrorText(e)]

\* one more item, x being the latest
Counted(k, x) == [n |-> k.n + 1, last |-> x]

\* caller c calls FindOne: retry is entered
CInvoke(c) ==
    /\ Ready
    /\ inflight[c].pc = "idle"
    /\ inflight' = [inflight EXCEPT ![c] = [Outside EXCEPT !.pc = "head"]]
    /\ frames' = [frames EXCEPT ![Slot(c)] = NewFrame]
    /\ UNCHANGED <<store, nextId, up, soloVars, moreVars, handle>>

\* the head of the loop: the limit is exceeded and retry returns, or fn is
\* called
CHead(c) ==
    LET me == inflight[c]
        f == frames[Slot(c)]
        gone == me.ctx = "cancelled"
    IN /\ me.pc = "head"
       /\ IF Exhausted(f.attempt)
          THEN inflight' = [inflight EXCEPT ![c].pc = "done",
                                            ![c].ret = [err |-> ExhaustedError(f.err)]]
          ELSE inflight' = [inflight EXCEPT
                  ![c].pc = "call",
                  ![c].late = gone,
                  ![c].after.calls = IF gone /\ me.after.kept THEN @ + 1 ELSE @]
       /\ UNCHANGED <<store, nextId, up, soloVars, moreVars, handle, frames>>

\* fn returns: err is assigned and tested
CCall(c) ==
    LET me == inflight[c]
    IN /\ me.pc = "call"
       /\ \E e \in CFaults(c, me.own.n + 1) :
           \E o \in UpstreamRead(store, nextId, CallOf(c), <<>>, e) :
               LET b == Branch(o.err)
                   kept == me.after.kept /\ (me.late => "canceled" \in ClsOf(o.err))
               IN /\ frames' = [frames EXCEPT ![Slot(c)].err = o.err]
                  /\ inflight' = [inflight EXCEPT
                        ![c].own = Counted(@, o.err),
                        ![c].after.kept = kept,
                        ![c].pc = IF Retrying(b) THEN "log" ELSE "done",
                        ![c].ret = IF Retrying(b) THEN @ ELSE [err |-> o.err]]
       /\ UNCHANGED <<store, nextId, up, soloVars, moreVars, handle>>

\* a transient error: the log entry is written
CLog(c) ==
    LET me == inflight[c]
        f == frames[Slot(c)]
    IN /\ me.pc = "log"
       /\ inflight' = [inflight EXCEPT
             ![c].pc = "sleep",
             ![c].logs = Counted(@, LogEntry(Branch(f.err), f.attempt, f.err))]
       /\ UNCHANGED <<store, nextId, up, soloVars, moreVars, handle, frames>>

\* time.Sleep returns and attempt is incremented
CSleep(c) ==
    LET me == inflight[c]
        f == frames[Slot(c)]
        gone == me.ctx = "cancelled"
    IN /\ me.pc = "sleep"
       /\ inflight' = [inflight EXCEPT
             ![c].pc = "head",
             ![c].sleeps = Counted(@, SleepMs(f.attempt)),
             ![c].after.sleeps = IF gone /\ me.after.kept THEN @ + 1 ELSE @]
       /\ frames' = [frames EXCEPT ![Slot(c)].attempt = @ + 1]
       /\ UNCHANGED <<store, nextId, up, soloVars, moreVars, handle>>

\* the caller cancels the context of its call while the call is in progress
CCancel(c) ==
    /\ inflight[c].pc \in {"head", "call", "log", "sleep"}
    /\ inflight[c].ctx = "live"
    /\ inflight' = [inflight EXCEPT ![c].ctx = "cancelled"]
    /\ UNCHANGED <<store, nextId, up, soloVars, moreVars, handle, frames>>

\* retry has returned: its locals are gone
CReturn(c) ==
    /\ inflight[c].pc = "done"
    /\ inflight' = [inflight EXCEPT ![c] = Outside]
    /\ frames' = [frames EXCEPT ![Slot(c)] = NewFrame]
    /\ UNCHANGED <<store, nextId, up, soloVars, moreVars, handle>>

NextConc ==
    \E c \in Callers :
        \/ CInvoke(c) \/ CHead(c) \/ CCall(c) \/ CLog(c) \/ CSleep(c)
        \/ CCancel(c) \/ CReturn(c)

\* concurrent read calls on one RetryingStorage
SpecConc == Init /\ [][NextConc]_vars

\* ------------------------------------------------------------- nested decorators
\* NewRetryingStorage(NewRetryingStorage(leaf)): FindOne on the outer
\* decorator.  The outer retry's fn is the inner decorator's FindOne, whose
\* retry's fn is the leaf's FindOne.  outer and inner are the locals of the
\* two calls of retry; leaf counts the leaf calls, tries the inner
\* invocations, and last is what the latest leaf call returned.

\* FindOne is called on the outer decorator
NInvoke ==
    /\ Ready
    /\ nest.pc = "idle"
    /\ \E f \in RFilters :
        nest' = [pc |-> "outer", call |-> [op |-> "FindOne", args |-> [filter |-> f]],
                 outer |-> NewFrame, inner |-> NewFrame,
                 leaf |-> 0, tries |-> 0, run |-> 0, last |-> NoCall, ret |-> NoCall]
    /\ UNCHANGED <<store, nextId, up, soloVars, concVars, findOptions>>

\* the outer retry after its fn, the inner invocation, returned r
OuterTakes(r) ==
    LET b == Branch(r)
    IN [nest EXCEPT !.outer.err = r,
                    !.outer.attempt = IF Retrying(b) THEN @ + 1 ELSE @,
                    !.pc = IF Retrying(b) THEN "outer" ELSE "done",
                    !.ret = IF Retrying(b) THEN @ ELSE [err |-> r]]

\* the head of the outer loop: the limit is exceeded, or the inner FindOne
\* is called and enters its own retry
NOuterHead ==
    /\ nest.pc = "outer"
    /\ IF Exhausted(nest.outer.attempt)
       THEN nest' = [nest EXCEPT !.pc = "done",
                                 !.ret = [err |-> ExhaustedError(nest.outer.err)]]
       ELSE nest' = [nest EXCEPT !.pc = "inner", !.inner = NewFrame,
                                 !.tries = @ + 1, !.run = 0]
    /\ UNCHANGED <<store, nextId, up, soloVars, concVars, findOptions>>

\* the head of the inner loop, the limit exceeded: the inner FindOne returns
\* the exhaustion error to the outer retry
NInnerExhausted ==
    /\ nest.pc = "inner"
    /\ Exhausted(nest.inner.attempt)
    /\ nest' = OuterTakes(ExhaustedError(nest.inner.err))
    /\ UNCHANGED <<store, nextId, up, soloVars, concVars, findOptions>>

\* one pass of the inner loop: the leaf's FindOne is called; on a transient
\* error the inner retry goes on, otherwise the inner FindOne returns to the
\* outer retry
NLeafCall ==
    /\ nest.pc = "inner"
    /\ ~Exhausted(nest.inner.attempt)
    /\ \E e \in Faults(nest.leaf + 1) :
        \E o \in UpstreamRead(store, nextId, nest.call, <<>>, e) :
            LET called == [nest EXCEPT !.leaf = @ + 1, !.run = @ + 1,
                                       !.last = [err |-> o.err],
                                       !.inner.err = o.err]
            IN IF Retrying(Branch(o.err))
               THEN nest' = [called EXCEPT !.inner.attempt = @ + 1]
               ELSE nest' = [OuterTakes(o.err) EXCEPT
                                !.leaf = called.leaf, !.run = called.run,
                                !.last = called.last, !.inner = called.inner]
    /\ UNCHANGED <<store, nextId, up, soloVars, concVars, findOptions>>

\* the outer FindOne has returned
NReturn ==
    /\ nest.pc = "done"
    /\ nest' = NoNest
    /\ UNCHANGED <<store, nextId, up, soloVars, concVars, findOptions>>

NextNested == NInvoke \/ NOuterHead \/ NInnerExhausted \/ NLeafCall \/ NReturn

\* read calls on a RetryingStorage that wraps a RetryingStorage, both
\* goroutine-free loops that keep running
SpecNested ==
    /\ Init /\ [][NextNested]_vars
    /\ WF_vars(NOuterHead) /\ WF_vars(NInnerExhausted) /\ WF_vars(NLeafCall)

\* ------------------------------------------------------------- the options of a fetch
\* the characters of the sort strings and the sort strings drawn from them
SortChars == {"-", "a", "g"}

SortStrings == UNION {[1..n -> SortChars] : n \in 0..MaxSortLen}

\* findOptions of Storage.FindMany: SetLimit, SetSkip and, for a sort string
\* that is not empty, SetSort; from is the sort string they were built from
FindOptions(limit, offset, sort) ==
    [from |-> sort, limit |-> limit, skip |-> offset, sort |-> SortOption(sort)]

\* Storage.FindMany builds the options of its fetch
BuildFindOptions ==
    /\ Ready
    /\ \E l \in Limits, k \in Offsets, s \in SortStrings :
        findOptions' = FindOptions(l, k, s)
    /\ UNCHANGED <<store, nextId, up, soloVars, concVars, nest>>

NextSort == BuildFindOptions

\* the options Storage.FindMany builds, for every sort string
SpecSort == Init /\ [][NextSort]_vars

NextRead ==
    \/ RFindOne \/ RFindAll \/ RFindMany
    \/ RetryAttempt \/ RetryExhausted
    \/ Return

\* read calls on a RetryingStorage, where the goroutine inside retry keeps
\* running: fn and time.Sleep return, and the loop goes on to its next pass
\* or to its return
SpecRead ==
    Init /\ [][NextRead]_vars /\ WF_vars(RetryAttempt) /\ WF_vars(RetryExhausted)

\* ------------------------------------------------------------- properties
ReadOps == {"FindOne", "FindAll", "FindMany"}
PassOps == {"Insert", "Update", "Upsert", "Delete", "DeleteMany", "RunInTransaction"}

AllTransient(h, n) == \A i \in 1..n : h[i] = "transient"

\* C1: in a read invocation, while every upstream call so far failed with a
\* transient error and fewer than maxRetries calls were made, the next
\* attempt is still to be made; and when attempt k returns no error after
\* k-1 transient failures, the invocation has returned success after exactly
\* k upstream calls, k <= maxRetries.
C1_SuccessOnAttemptK ==
    inv.op \in ReadOps =>
        /\ \A k \in 1..Len(hist) :
            (hist[k] = "ok" /\ AllTransient(hist, k - 1)) =>
                /\ k <= maxRetries
                /\ Len(hist) = k /\ calls = k
                /\ pc = "done" /\ ret.err = NoErr
        /\ (Len(hist) < maxRetries /\ AllTransient(hist, Len(hist))) =>
                pc = "retry" /\ attempt = Len(hist) + 1 /\ calls = Len(hist)

C1_Witness ==
    /\ pc = "done" /\ inv.op = "FindAll" /\ ret.err = NoErr
    /\ calls = maxRetries /\ AllTransient(hist, maxRetries - 1)

\* C2: a read invocation never makes more than maxRetries upstream calls;
\* after maxRetries transient failures it makes no further call and what it
\* returns is the "exceeded retry limit" wrapper whose cause is the error of
\* the last (maxRetries-th) upstream call.
C2_ExhaustionAfterTen ==
    inv.op \in ReadOps =>
        /\ calls <= maxRetries /\ Len(hist) = calls
        /\ (calls = maxRetries /\ AllTransient(hist, maxRetries)) =>
            /\ pc = "retry" => attempt > maxRetries
            /\ pc = "done" =>
                /\ ret.err.name = "withStack"
                /\ Unwrap(ret.err).name = "withMessage"
                /\ Unwrap(ret.err).msg = "exceeded retry limit"
                /\ Unwrap(Unwrap(ret.err)) = up.err
                /\ {x \in ErrChain(ret.err) : x.name = "driver"} = {up.err}
                /\ up.err.id = maxRetries

C2_Witness ==
    /\ pc = "done" /\ inv.op = "FindOne" /\ calls = maxRetries
    /\ AllTransient(hist, maxRetries)
    /\ up.err \in ErrChain(ret.err)

\* C3: when an upstream call of a read invocation returns an error that is
\* neither a cancellation nor transient, at any attempt k, the invocation has
\* returned that very error, made k calls and slept only after the k-1
\* earlier attempts.
C3_UnrecognizedReturnedUnchanged ==
    inv.op \in ReadOps =>
        \A k \in 1..Len(hist) :
            hist[k] = "other" =>
                /\ Len(hist) = k /\ calls = k
                /\ pc = "done"
                /\ ret.err = up.err /\ ret.err = err
                /\ ret.err.name \in {"driver", "ErrNoDocuments"}
                /\ Len(sleeps) = k - 1

C3_Witness ==
    /\ pc = "done" /\ inv.op = "FindMany"
    /\ Len(hist) = 3 /\ hist[3] = "other" /\ ret.err = up.err /\ ret.err.id = 3

\* C4: when an upstream call of a read invocation returns a cancellation
\* error, the invocation has returned that error with no further call and no
\* sleep after it; on attempt 1 that is 1 call and no sleep at all.
C4_CancellationReturnsAtOnce ==
    inv.op \in ReadOps =>
        \A k \in 1..Len(hist) :
            hist[k] = "canceled" =>
                /\ Len(hist) = k /\ calls = k
                /\ pc = "done"
                /\ ret.err = up.err /\ IsCanceled(ret.err)
                /\ Len(sleeps) = k - 1 /\ Len(logs) = k - 1

C4_Witness ==
    /\ pc = "done" /\ inv.op = "FindOne"
    /\ hist = <<"canceled">> /\ calls = 1 /\ sleeps = <<>>

\* C5: a write or a transaction issued through RetryingStorage has made
\* exactly one upstream call, of the same operation with the same arguments,
\* and returned the upstream's value and error as they are, whatever the error.
C5_WritesPassThroughOnce ==
    inv.op \in PassOps =>
        /\ pc = "done"
        /\ calls = 1 /\ Len(hist) = 1
        /\ up.op = inv.op /\ up.args = inv.args
        /\ ret.err = up.err /\ ret.total = up.n
        /\ sleeps = <<>> /\ logs = <<>>

C5_Witness ==
    /\ pc = "done" /\ inv.op = "Upsert" /\ hist = <<"transient">>
    /\ calls = 1 /\ ret.err = up.err

\* what a read leaves in dest when it succeeds on the collection st
ExpectedRead(st, c) ==
    IF c.op = "FindOne"
    THEN {<<d>> : d \in {x \in Range(st) :
                           /\ Matches(x, c.args.filter)
                           /\ x = Matching(st, c.args.filter)[1]}}
    ELSE IF c.op = "FindAll" THEN {Matching(st, c.args.filter)}
    ELSE Find(st, c.args.filter, c.args.limit, c.args.offset, SortOption(c.args.sort))

StepAt(name) == CHOOSE i \in 1..Len(up.calls) : up.calls[i] = name

Made(name) == name \in Range(up.calls)

\* C7: when fn returns an error in Storage.RunInTransaction, the transaction
\* is aborted and no commit is attempted; if the abort succeeds the error
\* returned is fn's error itself; if it fails, the error returned wraps the
\* abort's error and its text holds the text of both errors.
C7_FnErrorAborts ==
    (up.op = "RunInTransaction" /\ up.args.failAt = "fn") =>
        /\ Made("fn") /\ Made("AbortTransaction") /\ ~Made("CommitTransaction")
        /\ StepAt("fn") < StepAt("AbortTransaction")
        /\ up.args.abortErr = NoErr => up.err = up.args.stepErr
        /\ up.args.abortErr # NoErr =>
            /\ up.args.abortErr \in ErrChain(up.err)
            /\ up.args.abortErr \in Range(ErrorText(up.err))
            /\ up.args.stepErr \in Range(ErrorText(up.err))

C7_Witness ==
    /\ up.op = "RunInTransaction" /\ up.args.failAt = "fn"
    /\ up.args.abortErr # NoErr
    /\ up.err.name = "wrapError"
    /\ up.args.stepErr \in Range(ErrorText(up.err))

\* C8 as stated: whenever Storage.RunInTransaction returns an error, whichever
\* step failed, it has attempted to abort the transaction.
C8_AbortOnAnyFailure ==
    (up.op = "RunInTransaction" /\ up.err # NoErr) => Made("AbortTransaction")

\* C8: when starting the transaction, fn or the commit fails,
\* Storage.RunInTransaction attempts the abort after the failed step and
\* before the session ends; when opening the session fails it returns that
\* error with no other call made; when nothing fails it attempts no abort.
C8_AbortOnceSessionOpen ==
    up.op = "RunInTransaction" =>
        /\ up.args.failAt \in {"start", "fn", "commit"} =>
            /\ up.err # NoErr
            /\ Made("AbortTransaction")
            /\ \A i \in 1..Len(up.calls) :
                up.calls[i] \in {"StartTransaction", "fn", "CommitTransaction"}
                    => i < StepAt("AbortTransaction")
            /\ StepAt("AbortTransaction") < StepAt("EndSession")
        /\ up.args.failAt = "session" =>
            up.calls = <<"StartSession">> /\ up.err = up.args.stepErr
        /\ up.args.failAt = "none" => up.err = NoErr /\ ~Made("AbortTransaction")

C8_Witness ==
    /\ up.op = "RunInTransaction" /\ up.args.failAt = "commit"
    /\ Made("CommitTransaction") /\ Made("AbortTransaction")
    /\ up.err # NoErr

Max(a, b) == IF a >= b THEN a ELSE b
Min(a, b) == IF a <= b THEN a ELSE b

\* the update sets no field the filter tests to another value
KeepsFilter(filter, update) ==
    \A p \in filter, q \in update : q[1] = p[1] => q[2] = p[2]

\* document a is document b with the update's fields set
Updated(a, b, update) ==
    /\ a.id = b.id
    /\ \A q \in update : Field(a, q[1]) = {q[2]}
    /\ \A f \in {"grp", "age"} : (\A q \in update : q[1] # f) => Field(a, f) = Field(b, f)

\* Storage.Upsert returned without error, nothing having matched before: one
\* document was added and 1 is returned
UpsertInserted ==
    /\ up.n = 1
    /\ Len(store) = Len(up.pre) + 1
    /\ SubSeq(store, 1, Len(up.pre)) = up.pre
    /\ \A d \in Range(up.pre) : store[Len(store)].id # d.id
    /\ \A q \in up.args.update : Field(store[Len(store)], q[1]) = {q[2]}

\* Storage.Upsert returned without error, one document having matched before:
\* no document was added, the match is updated where it is and 0 is returned
UpsertUpdated ==
    /\ up.n = 0
    /\ Len(store) = Len(up.pre)
    /\ \A j \in 1..Len(store) :
        IF Matches(up.pre[j], up.args.filter)
        THEN Updated(store[j], up.pre[j], up.args.update)
        ELSE store[j] = up.pre[j]

Requested(sort) ==
    IF sort = <<"-", "a", "g", "e">> THEN [field |-> "age", desc |-> TRUE]
    ELSE IF sort = <<"a", "g", "e">> THEN [field |-> "age", desc |-> FALSE]
    ELSE [field |-> "", desc |-> FALSE]

\* x comes strictly before d, or no later than d, in the requested order
Sooner(x, d, rq) ==
    IF rq.desc THEN Rank(Field(x, rq.field)) > Rank(Field(d, rq.field))
    ELSE Rank(Field(x, rq.field)) < Rank(Field(d, rq.field))

NoLater(x, d, rq) == ~Sooner(d, x, rq)

\* page holds documents of M, each once, at the places offset+1, offset+2, ...
\* of an ordering of M in the requested order
IsPage(page, M, offset, rq) ==
    /\ Range(page) \subseteq M
    /\ \A i, j \in 1..Len(page) : page[i] = page[j] => i = j
    /\ rq.field # "" =>
        \A i \in 1..Len(page) :
            /\ Cardinality({x \in M : Sooner(x, page[i], rq)}) <= offset + i - 1
            /\ Cardinality({x \in M : NoLater(x, page[i], rq)}) >= offset + i
            /\ i < Len(page) => NoLater(page[i], page[i + 1], rq)

\* C10 as stated: a successful Storage.FindMany returns as total the number
\* of documents matching the filter, and a page of at most limit documents
\* that skips the first offset matching documents in the requested order.
C10_PageAtMostLimit ==
    (up.op = "FindMany" /\ up.err = NoErr) =>
        /\ up.n = CountDocuments(store, up.args.filter)
        /\ Len(up.out) <= up.args.limit
        /\ IsPage(up.out, Range(Matching(store, up.args.filter)), up.args.offset,
                  Requested(up.args.sort))

\* C10: a successful Storage.FindMany returns as total the number of
\* documents matching the filter, whatever limit and offset are, and a page
\* that skips the first offset matching documents in the requested order and
\* holds the next limit of them, or all that are left when they are fewer or
\* when limit is 0: at most limit documents for limit >= 1, every remaining
\* document for limit = 0.
C10_TotalAndPage ==
    (up.op = "FindMany" /\ up.err = NoErr) =>
        LET count == Cardinality({i \in 1..Len(store) : Matches(store[i], up.args.filter)})
            rest == Max(0, count - up.args.offset)
        IN /\ up.n = count
           /\ Len(up.out) = (IF up.args.limit = 0 THEN rest ELSE Min(up.args.limit, rest))
           /\ up.args.limit >= 1 => Len(up.out) <= up.args.limit
           /\ IsPage(up.out, Range(Matching(store, up.args.filter)), up.args.offset,
                     Requested(up.args.sort))

\* 15 matching documents, limit 10, offset 0, sort "-age": total 15 and 10
\* documents in descending order of age
C10_Witness ==
    /\ up.op = "FindMany" /\ up.err = NoErr
    /\ up.args.filter = {<<"grp", 1>>}
    /\ up.args.limit = 10 /\ up.args.offset = 0
    /\ up.args.sort = <<"-", "a", "g", "e">>
    /\ up.n = 15 /\ Len(up.out) = 10
    /\ \A i \in 1..9 : Rank(up.out[i].age) >= Rank(up.out[i + 1].age)
    /\ Rank(up.out[1].age) = 14 /\ Rank(up.out[10].age) = 5

\* how many times a step occurs in the calls of the latest call on Storage
Times(name) == Cardinality({i \in 1..Len(up.calls) : up.calls[i] = name})

\* C16: the calls of Storage.RunInTransaction come in the order
\* StartSession, StartTransaction, fn, CommitTransaction; fn is called at
\* most once, and only when StartTransaction returned no error; the commit
\* is attempted exactly when StartTransaction and fn both returned no error;
\* when the commit succeeds no abort is attempted and nil is returned.
C16_TransactionStepOrder ==
    up.op = "RunInTransaction" =>
        /\ up.calls[1] = "StartSession" /\ Times("StartSession") = 1
        /\ Times("StartTransaction") <= 1 /\ Times("fn") <= 1
        /\ Times("CommitTransaction") <= 1
        /\ Made("StartTransaction") <=> up.args.failAt # "session"
        /\ Made("StartTransaction") => StepAt("StartTransaction") = 2
        /\ Made("fn") <=> up.args.failAt \in {"fn", "commit", "none"}
        /\ Made("fn") => StepAt("fn") = 3
        /\ Made("CommitTransaction") <=> up.args.failAt \in {"commit", "none"}
        /\ Made("CommitTransaction") => StepAt("CommitTransaction") = 4
        /\ up.args.failAt = "none" =>
            /\ up.err = NoErr
            /\ ~Made("AbortTransaction")
            /\ up.calls = <<"StartSession", "StartTransaction", "fn",
                            "CommitTransaction", "EndSession">>

C16_Witness ==
    /\ up.op = "RunInTransaction" /\ up.args.failAt = "none"
    /\ up.err = NoErr
    /\ StepAt("fn") < StepAt("CommitTransaction")
    /\ Times("AbortTransaction") = 0

\* C17: when Storage.RunInTransaction has opened its session, the session
\* is ended exactly once, as the last call before the return and so after
\* the abort if one was attempted, whichever step failed and whether or not
\* the abort failed; when opening the session failed no session is ended.
C17_SessionEndedOnce ==
    up.op = "RunInTransaction" =>
        IF up.args.failAt = "session"
        THEN Times("EndSession") = 0 /\ up.calls = <<"StartSession">>
        ELSE /\ Times("EndSession") = 1
             /\ up.calls[Len(up.calls)] = "EndSession"
             /\ Made("AbortTransaction") =>
                    /\ Times("AbortTransaction") = 1
                    /\ StepAt("AbortTransaction") = StepAt("EndSession") - 1
             /\ Made("AbortTransaction") <=> up.args.failAt # "none"

C17_Witness ==
    /\ up.op = "RunInTransaction" /\ up.args.failAt = "start"
    /\ up.args.abortErr # NoErr /\ up.err.name = "wrapError"
    /\ up.calls = <<"StartSession", "StartTransaction", "AbortTransaction", "EndSession">>

\* the store call of each operation of Storage that makes one
StoreCall(op) ==
    IF op = "FindOne" THEN "FindOne"
    ELSE IF op = "FindAll" THEN "Find"
    ELSE IF op = "Insert" THEN "InsertOne"
    ELSE IF op \in {"Update", "Upsert"} THEN "UpdateOne"
    ELSE IF op = "Delete" THEN "DeleteOne"
    ELSE "DeleteMany"

OneCallOps == {"FindOne", "FindAll", "Insert", "Update", "Upsert", "Delete", "DeleteMany"}

\* a read that returned no error returned what the collection holds now
FreshRead ==
    up.err = NoErr =>
        /\ up.op = "FindOne" => up.out = <<Matching(store, up.args.filter)[1]>>
        /\ up.op = "FindAll" => up.out = Matching(store, up.args.filter)
        /\ up.op = "FindMany" => up.n = CountDocuments(store, up.args.filter)

\* C18 as stated: every operation of Storage makes exactly one store call,
\* and FindMany exactly two, CountDocuments then Find.
C18_OneCallTwoForFindMany ==
    /\ up.op \in OneCallOps => up.calls = <<StoreCall(up.op)>>
    /\ up.op = "FindMany" => up.calls = <<"CountDocuments", "Find">>

\* C18: every operation of Storage but FindMany makes exactly one store
\* call; FindMany makes CountDocuments and then Find, or CountDocuments
\* alone when it failed, returning its error; no store call is made twice,
\* and a read that succeeds returns what the collection holds at that call.
C18_OneCallNoRetryNoCache ==
    /\ up.op \in OneCallOps => up.calls = <<StoreCall(up.op)>>
    /\ up.op = "FindMany" =>
        \/ up.calls = <<"CountDocuments", "Find">>
        \/ /\ up.calls = <<"CountDocuments">>
           /\ up.err # NoErr /\ up.n = 0 /\ up.out = <<>>
    /\ up.op \in OneCallOps \cup {"FindMany"} =>
        /\ \A i, j \in 1..Len(up.calls) : up.calls[i] = up.calls[j] => i = j
        /\ FreshRead

C18_Witness ==
    /\ up.op = "FindMany" /\ up.err = NoErr
    /\ up.calls = <<"CountDocuments", "Find">>
    /\ Len(store) = 2 /\ up.n = 2 /\ Len(up.out) = 1

\* the text of an error holds the exhaustion message
SaysExceeded(e) == Lit("exceeded retry limit") \in Range(ErrorText(e))

\* C11: when the upstream FindOne of a RetryingStorage.FindOne returns the
\* not-found error, at any attempt, the invocation has returned that same
\* error with no further upstream call, sleep or log entry; the error is not
\* the exhaustion error (no wrapper, no "exceeded retry limit" in its text),
\* and an exhaustion error never has the not-found error in its chain.
C11_NotFoundNotRetried ==
    inv.op = "FindOne" =>
        /\ (up # NoCall /\ up.err = ErrNoDocuments) =>
            /\ pc = "done"
            /\ ret.err = ErrNoDocuments /\ err = ErrNoDocuments
            /\ up.calls = <<"FindOne">>
            /\ calls = Len(hist) /\ hist[calls] = "other"
            /\ Len(sleeps) = calls - 1 /\ Len(logs) = calls - 1
            /\ ErrChain(ret.err) = {ErrNoDocuments}
            /\ ~SaysExceeded(ret.err)
        /\ (pc = "done" /\ SaysExceeded(ret.err)) =>
            /\ ret.err # ErrNoDocuments
            /\ ErrNoDocuments \notin ErrChain(ret.err)

C11_Witness ==
    /\ pc = "done" /\ inv.op = "FindOne"
    /\ hist = <<"transient", "transient", "other">>
    /\ up.err = ErrNoDocuments /\ ret.err = ErrNoDocuments
    /\ calls = 3

RECURSIVE SumSeq(_)
SumSeq(s) == IF s = <<>> THEN 0 ELSE Head(s) + SumSeq(Tail(s))

\* C12: in every invocation the i-th sleep follows the transient failure of
\* attempt i and lasts 10 ms x i; there is one sleep for each transient
\* failure and none otherwise, and the sleeps of one invocation add up to at
\* most 550 ms = 10 + 20 + ... + 100.
C12_LinearBackoff ==
    /\ \A i \in 1..Len(sleeps) : sleeps[i] = 10 * i /\ hist[i] = "transient"
    /\ Len(sleeps) <= maxRetries
    /\ SumSeq(sleeps) <= 550
    /\ inv.op \in ReadOps =>
        Len(sleeps) = Cardinality({i \in 1..Len(hist) : hist[i] = "transient"})
    /\ inv.op \in PassOps => sleeps = <<>>

C12_Witness ==
    /\ pc = "done" /\ inv.op = "FindMany"
    /\ Len(sleeps) = maxRetries /\ sleeps[maxRetries] = 100
    /\ SumSeq(sleeps) = 550

\* the number of transient failures among the upstream calls made so far
Failures == Cardinality({i \in 1..Len(hist) : hist[i] = "transient"})

\* C15: every read invocation terminates, whatever its upstream calls
\* return; it makes at most maxRetries upstream calls and at least one
\* before it returns; its attempt counter is 1 when it starts, is always 1
\* plus the number of transient failures so far, changes only by growing by
\* 1 in a pass whose upstream call failed with a transient error, and never
\* exceeds maxRetries + 1.
C15_ReadTerminates ==
    /\ [](inv.op \in ReadOps =>
            /\ attempt \in 1..(maxRetries + 1)
            /\ attempt = 1 + Failures
            /\ calls <= maxRetries /\ calls = Len(hist)
            /\ pc = "done" => calls >= 1)
    /\ [][/\ (pc = "idle" /\ pc' = "retry") => (attempt' = 1 /\ calls' = 0)
          /\ (pc = "retry" /\ attempt' # attempt) =>
                /\ attempt' = attempt + 1
                /\ calls' = calls + 1
                /\ hist'[calls'] = "transient"
          /\ (pc = "retry" /\ calls' # calls) => calls' = calls + 1]_vars
    /\ (pc = "retry") ~> (pc = "done")

C15_Witness ==
    /\ pc = "done" /\ inv.op = "FindAll"
    /\ attempt = maxRetries + 1 /\ calls = maxRetries
    /\ SaysExceeded(ret.err)

\* the latest call of caller c's invocation failed with a transient error
OwnTransient(c) == Retrying(Branch(inflight[c].own.last))

\* C13: under every interleaving of two invocations on one handle, the
\* attempt counter and the last error each invocation works with are
\* determined by the upstream calls of that invocation alone: err is the
\* error of its own latest call, attempt is 1 plus the number of its own
\* transient failures that were slept on, it makes at most maxRetries calls,
\* and what it returns is nil, its own last error, or the exhaustion wrapper
\* of its own tenth error; the fields of the handle stay as constructed.
C13_NoSharedRetryState ==
    /\ handle = NewRetryingStorage
    /\ \A c \in Callers :
        LET me == inflight[c]
            f == frames[Slot(c)]
        IN me.pc # "idle" =>
            /\ me.own.n <= maxRetries
            /\ f.err = me.own.last
            /\ me.own.last.name = "driver" => me.own.last.id = <<c, me.own.n>>
            /\ me.pc \in {"head", "call"} => f.attempt = me.own.n + 1
            /\ me.pc \in {"log", "sleep"} => f.attempt = me.own.n /\ OwnTransient(c)
            /\ me.pc = "done" =>
                IF OwnTransient(c)
                THEN /\ me.own.n = maxRetries /\ f.attempt = maxRetries + 1
                     /\ me.ret.err = ExhaustedError(me.own.last)
                ELSE /\ me.own.n >= 1 /\ f.attempt = me.own.n
                     /\ me.ret.err = me.own.last

C13_Witness ==
    /\ inflight[1].pc = "sleep" /\ frames[Slot(1)].attempt = 3
    /\ inflight[2].pc = "call" /\ frames[Slot(2)].attempt = 2
    /\ frames[Slot(1)].err.id = <<1, 3>> /\ frames[Slot(2)].err.id = <<2, 1>>

\* the context of caller c's invocation was cancelled while it was in
\* progress, and every call started since returned a cancellation error
CancelledKept(c) == inflight[c].ctx = "cancelled" /\ inflight[c].after.kept

\* C14 as stated: once the context is cancelled, with every call started
\* afterwards returning a cancellation error, the invocation completes at
\* most one sleep and starts at most one call, and what it returns is the
\* cancellation error.
C14_ReturnsCancellation ==
    \A c \in Callers :
        CancelledKept(c) =>
            /\ inflight[c].after.sleeps <= 1
            /\ inflight[c].after.calls <= 1
            /\ inflight[c].pc = "done" => IsCanceled(inflight[c].ret.err)

\* C14: once the context is cancelled, with every call started afterwards
\* returning a cancellation error, the invocation completes at most one
\* sleep and starts at most one call; when it started one, it returns that
\* call's cancellation error with no sleep after it; when it started none,
\* it returns what the call in progress at the cancellation returned, or the
\* exhaustion error.
C14_OneSleepOneCall ==
    \A c \in Callers :
        LET me == inflight[c]
        IN CancelledKept(c) =>
            /\ me.after.sleeps <= 1
            /\ me.after.calls <= 1
            /\ me.after.calls = 1 =>
                /\ me.pc \in {"call", "done"}
                /\ me.pc = "done" =>
                    /\ IsCanceled(me.ret.err)
                    /\ me.ret.err = me.own.last
            /\ (me.pc = "done" /\ me.after.calls = 0) =>
                \/ me.ret.err = me.own.last
                \/ /\ me.ret.err = ExhaustedError(me.own.last)
                   /\ me.own.n = maxRetries

C14_Witness ==
    /\ inflight[2].pc = "done" /\ CancelledKept(2)
    /\ inflight[2].after.sleeps = 1 /\ inflight[2].after.calls = 1
    /\ inflight[2].own.n = 3
    /\ IsCanceled(inflight[2].ret.err)

\* C19: an invocation has one log entry for each of its transient failures
\* and no other: entry i is at the informational level, carries attempt
\* number i and the text of the error of call i, and its message is the one
\* of the transient category of that error; it is written after call i
\* failed, before sleep i and before call i + 1.  Successes, cancellations,
\* unrecognized errors and the exhaustion return add no entry.
C19_OneEntryPerTransient ==
    \A c \in Callers :
        LET me == inflight[c]
            f == frames[Slot(c)]
        IN me.pc # "idle" =>
            /\ me.pc \in {"head", "call"} =>
                me.logs.n = me.own.n /\ me.sleeps.n = me.own.n
            /\ me.pc = "log" =>
                me.logs.n = me.own.n - 1 /\ me.sleeps.n = me.own.n - 1
            /\ me.pc = "sleep" =>
                /\ me.logs.n = me.own.n /\ me.sleeps.n = me.own.n - 1
                /\ me.logs.last = [level |-> "info", msg |-> Branch(me.own.last),
                                   attempt |-> me.own.n,
                                   error |-> ErrorText(me.own.last)]
            /\ me.pc = "done" =>
                /\ me.logs.n = (IF OwnTransient(c) THEN me.own.n ELSE me.own.n - 1)
                /\ me.sleeps.n = me.logs.n
            /\ me.logs.n = 0 => me.logs = None
            /\ me.logs.n > 0 =>
                /\ me.logs.last.level = "info"
                /\ me.logs.last.attempt = me.logs.n
                /\ Len(me.logs.last.error) = 1
                /\ me.logs.last.error[1].id = <<c, me.logs.n>>
                /\ Retrying(Branch(me.logs.last.error[1]))
                /\ me.logs.last.msg = Branch(me.logs.last.error[1])

C19_Witness ==
    /\ inflight[1].pc = "sleep"
    /\ inflight[1].logs.n = 2 /\ inflight[1].sleeps.n = 1
    /\ inflight[1].logs.last.attempt = 2
    /\ inflight[1].logs.last.msg = "retrying mongodb pool error"
    /\ inflight[1].logs.last.error = <<frames[Slot(1)].err>>

\* C21: a FindOne on a decorator that wraps a decorator that wraps a leaf
\* terminates whatever the leaf calls return; it runs at most maxRetries
\* inner invocations of at most maxRetries leaf calls each, at most
\* maxRetries x maxRetries leaf calls in all; and when a leaf call returns
\* no error the whole operation has returned nil with that call as its last.
C21_NestedBounded ==
    /\ [](nest.pc # "idle" =>
            /\ nest.tries <= maxRetries
            /\ nest.run <= maxRetries
            /\ nest.leaf <= maxRetries * maxRetries
            /\ nest.leaf <= nest.tries * maxRetries
            /\ nest.outer.attempt <= maxRetries + 1
            /\ nest.inner.attempt <= maxRetries + 1
            /\ (nest.leaf > 0 /\ nest.last.err = NoErr) =>
                    nest.pc = "done" /\ nest.ret.err = NoErr
            /\ (nest.pc = "done" /\ nest.ret.err = NoErr) =>
                    nest.leaf >= 1 /\ nest.last.err = NoErr)
    /\ [][(nest.pc # "idle" /\ nest.leaf > 0 /\ nest.last.err = NoErr)
            => nest' = NoNest]_vars
    /\ (nest.pc \in {"outer", "inner"}) ~> (nest.pc = "done")

C21_Witness ==
    /\ nest.pc = "done"
    /\ nest.leaf = maxRetries * maxRetries
    /\ nest.tries = maxRetries /\ nest.run = maxRetries
    /\ nest.ret.err = NoErr

\* C22: for every sort string, Storage.FindMany sets no sort when the string
\* is empty, a descending sort on the string without its first character
\* when that character is "-", and an ascending sort on the whole string
\* otherwise.
C22_SortDerivation ==
    findOptions # NoFindOptions =>
        LET s == findOptions.from
            o == findOptions.sort
        IN /\ s = <<>> => o = NoSort
           /\ s # <<>> => o # NoSort
           /\ (s # <<>> /\ s[1] = "-") =>
                o = [key |-> SubSeq(s, 2, Len(s)), value |-> 0 - 1]
           /\ (s # <<>> /\ s[1] # "-") => o = [key |-> s, value |-> 1]

C22_Witness ==
    /\ findOptions # NoFindOptions
    /\ findOptions.from = <<"-", "-", "a">>
    /\ findOptions.sort = [key |-> <<"-", "a">>, value |-> 0 - 1]

Transient == {"disconnected", "timeout", "network", "pool", "waitqueue"}

\* C20: when an upstream call of a read invocation returns an error that is
\* a cancellation and also matches a transient category, the invocation has
\* returned that error unchanged: nothing was logged for it, no sleep
\* followed it, the attempt counter did not move and no further call is made.
C20_CancellationPrecedes ==
    (/\ inv.op \in ReadOps /\ up # NoCall /\ up.err # NoErr
     /\ "canceled" \in ClsOf(up.err) /\ ClsOf(up.err) \cap Transient # {}) =>
        /\ pc = "done"
        /\ ret.err = up.err /\ err = up.err
        /\ calls = Len(hist)
        /\ attempt = calls
        /\ Len(logs) = calls - 1 /\ Len(sleeps) = calls - 1
        /\ \A i \in 1..Len(logs) : logs[i].error # up.err.id

C20_Witness ==
    /\ pc = "done" /\ inv.op = "FindAll"
    /\ hist = <<"transient", "canceled">>
    /\ ClsOf(up.err) = {"canceled", "network"}
    /\ ret.err = up.err

====
